---- MODULE Spec2Model ----
(***************************************************************************)
(* Model of the AI-request layer of Free-Ed: the TTL cache (CacheService), *)
(* the retry wrapper (backOff with the options generate passes to it), the *)
(* error classification (formatError), the output clean-up (sanitize) and  *)
(* ContentService.generate, as written in src/src/data/mockData.ts.        *)
(*                                                                         *)
(* JavaScript strings are sequences of one-character strings, so that      *)
(* includes, indexOf, slice, replace and trim are computed and not assumed.*)
(* Date.now() is the variable now; it is advanced by the environment only. *)
(* The timer of a backoff delay fires at some later step; the length of    *)
(* the delay the code asked for is recorded in delays.                     *)
(***************************************************************************)
EXTENDS Integers, Sequences, FiniteSets, TLC

(***************************************************************************)
(* Bounds of the model                                                     *)
(***************************************************************************)
NumCalls == 2
MaxTicks == 3
MaxPieces == 3
MaxTopicLen == 2

(***************************************************************************)
(* JavaScript string primitives                                            *)
(***************************************************************************)
\* null and undefined: a marker that is not a string of characters
Null == <<"<null>">>

Min(a, b) == IF a < b THEN a ELSE b
Max(a, b) == IF a > b THEN a ELSE b

RECURSIVE Pow(_, _)
Pow(b, e) == IF e = 0 THEN 1 ELSE b * Pow(b, e - 1)

\* s starts with pattern p at the 1-based position i
MatchAt(s, p, i) ==
    /\ i >= 1
    /\ i + Len(p) - 1 <= Len(s)
    /\ \A j \in 1..Len(p) : s[i + j - 1] = p[j]

\* String.prototype.includes
Includes(s, p) == \E i \in 1..(Len(s) + 1) : MatchAt(s, p, i)

\* String.prototype.indexOf, 0-based, -1 when absent
IndexOf(s, p) ==
    IF Includes(s, p)
    THEN (CHOOSE i \in 1..(Len(s) + 1) :
            MatchAt(s, p, i) /\ \A j \in 1..(i - 1) : ~MatchAt(s, p, j)) - 1
    ELSE -1

\* String.prototype.lastIndexOf, 0-based, -1 when absent
LastIndexOf(s, p) ==
    IF Includes(s, p)
    THEN (CHOOSE i \in 1..(Len(s) + 1) :
            MatchAt(s, p, i) /\ \A j \in (i + 1)..(Len(s) + 1) : ~MatchAt(s, p, j)) - 1
    ELSE -1

\* String.prototype.slice(start, end) with 0-based, possibly negative, indices
Slice(s, start, end) ==
    LET from == IF start < 0 THEN Max(Len(s) + start, 0) ELSE Min(start, Len(s))
        to   == IF end < 0 THEN Max(Len(s) + end, 0) ELSE Min(end, Len(s))
    IN  IF from >= to THEN <<>> ELSE SubSeq(s, from + 1, to)

\* the white space String.prototype.trim removes, among the characters used
WhiteSpace == {" ", "\n", "\t", "\r", "\f"}

RECURSIVE TrimStart(_)
TrimStart(s) ==
    IF s # <<>> /\ Head(s) \in WhiteSpace THEN TrimStart(Tail(s)) ELSE s

RECURSIVE TrimEnd(_)
TrimEnd(s) ==
    IF s # <<>> /\ s[Len(s)] \in WhiteSpace
    THEN TrimEnd(SubSeq(s, 1, Len(s) - 1))
    ELSE s

\* String.prototype.trim
\* variant of Trim: at most one white-space character is dropped at each end
TrimOnce(s) ==
    LET t == IF s # <<>> /\ Head(s) \in WhiteSpace THEN Tail(s) ELSE s
    IN  IF t # <<>> /\ t[Len(t)] \in WhiteSpace
        THEN SubSeq(t, 1, Len(t) - 1) ELSE t

Trim(s) == TrimEnd(TrimStart(s))

\* variant of Truthy: only the empty string is falsy, null is not
TruthyUnlessEmpty(v) == v # <<>>

\* a JavaScript value used as a condition: null, undefined and '' are falsy
Truthy(v) == v # Null /\ v # <<>>

(***************************************************************************)
(* The characters of a string: one element for each UTF-16 code unit.  A   *)
(* printable ASCII character is written as itself, a character a TLA+      *)
(* string cannot hold has a name.                                          *)
(***************************************************************************)
\* the backquote character (U+0060), which a TLA+ string cannot contain
BackQuote == "<backquote>"

\* the character U+2022, written as one element like any other character
Bullet == "<bullet>"

\* the characters U+0020 to U+007E in the order of their codes
Printable ==
    <<" ", "!", "\"", "#", "$", "%", "&", "'", "(", ")", "*", "+", ",",
      "-", ".", "/", "0", "1", "2", "3", "4", "5", "6", "7", "8", "9", ":",
      ";", "<", "=", ">", "?", "@", "A", "B", "C", "D", "E", "F", "G", "H",
      "I", "J", "K", "L", "M", "N", "O", "P", "Q", "R", "S", "T", "U", "V",
      "W", "X", "Y", "Z", "[", "\\", "]", "^", "_", BackQuote, "a", "b",
      "c", "d", "e", "f", "g", "h", "i", "j", "k", "l", "m", "n", "o", "p",
      "q", "r", "s", "t", "u", "v", "w", "x", "y", "z", "{", "|", "}", "~">>

HexUpper ==
    <<"0", "1", "2", "3", "4", "5", "6", "7", "8", "9", "A", "B", "C", "D",
      "E", "F">>

\* the value of a hexadecimal digit in either case
HexValue(c) ==
    LET lower == <<"0", "1", "2", "3", "4", "5", "6", "7", "8", "9", "a", "b",
                   "c", "d", "e", "f">>
    IN  (CHOOSE i \in 1..16 : HexUpper[i] = c \/ lower[i] = c) - 1

\* the character of the code unit n in 0..65535, as String.fromCharCode
\* gives it
CodeUnit(n) ==
    IF n \in 32..126 THEN Printable[n - 31]
    ELSE CASE n = 8 -> "<backspace>"
           [] n = 9 -> "\t"
           [] n = 10 -> "\n"
           [] n = 12 -> "\f"
           [] n = 13 -> "\r"
           [] n = 8226 -> Bullet
           [] OTHER -> "<U+" \o HexUpper[(n \div 4096) + 1]
                       \o HexUpper[((n \div 256) % 16) + 1]
                       \o HexUpper[((n \div 16) % 16) + 1]
                       \o HexUpper[(n % 16) + 1] \o ">"

(***************************************************************************)
(* JSON.parse, as a recognizer: JsonValid(s) iff JSON.parse(s) returns     *)
(***************************************************************************)
JsonWhiteSpace == {" ", "\n", "\t", "\r"}
Digits == {"0", "1", "2", "3", "4", "5", "6", "7", "8", "9"}
HexDigits == Digits \cup {"a", "b", "c", "d", "e", "f", "A", "B", "C", "D", "E", "F"}
\* U+0000 to U+001F, which a string literal of JSON cannot hold unescaped
ControlChars == {CodeUnit(n) : n \in 0..31}

\* every parser takes a 1-based position and returns the position after what
\* it read, or 0 when the text is not JSON
RECURSIVE SkipWs(_, _)
SkipWs(s, i) ==
    IF i <= Len(s) /\ s[i] \in JsonWhiteSpace THEN SkipWs(s, i + 1) ELSE i

RECURSIVE SkipDigits(_, _)
SkipDigits(s, i) ==
    IF i <= Len(s) /\ s[i] \in Digits THEN SkipDigits(s, i + 1) ELSE i

ParseNumber(s, i) ==
    LET a == IF i <= Len(s) /\ s[i] = "-" THEN i + 1 ELSE i
        b == IF a > Len(s) \/ s[a] \notin Digits THEN 0
             ELSE IF s[a] = "0" THEN a + 1
             ELSE SkipDigits(s, a)
        c == IF b = 0 THEN 0
             ELSE IF b <= Len(s) /\ s[b] = "."
                  THEN (IF SkipDigits(s, b + 1) = b + 1 THEN 0 ELSE SkipDigits(s, b + 1))
                  ELSE b
        d == IF c = 0 THEN 0
             ELSE IF c <= Len(s) /\ s[c] \in {"e", "E"}
                  THEN LET e == IF c + 1 <= Len(s) /\ s[c + 1] \in {"+", "-"}
                                THEN c + 2 ELSE c + 1
                       IN  IF SkipDigits(s, e) = e THEN 0 ELSE SkipDigits(s, e)
                  ELSE c
    IN  d

\* i is the position after the opening quote
RECURSIVE ParseChars(_, _)
ParseChars(s, i) ==
    IF i > Len(s) THEN 0
    ELSE IF s[i] = "\"" THEN i + 1
    ELSE IF s[i] \in ControlChars THEN 0
    ELSE IF s[i] = "\\"
         THEN IF i + 1 > Len(s) THEN 0
              ELSE IF s[i + 1] \in {"\"", "\\", "/", "b", "f", "n", "r", "t"}
                   THEN ParseChars(s, i + 2)
              ELSE IF s[i + 1] = "u"
                        /\ i + 5 <= Len(s)
                        /\ \A k \in 2..5 : s[i + k] \in HexDigits
                   THEN ParseChars(s, i + 6)
              ELSE 0
    ELSE ParseChars(s, i + 1)

RECURSIVE ParseValue(_, _)
RECURSIVE ParseElements(_, _)
RECURSIVE ParseMembers(_, _)

ParseValue(s, i) ==
    IF i > Len(s) THEN 0
    ELSE IF s[i] = "[" THEN
            LET j == SkipWs(s, i + 1)
            IN  IF j <= Len(s) /\ s[j] = "]" THEN j + 1 ELSE ParseElements(s, j)
    ELSE IF s[i] = "{" THEN
            LET j == SkipWs(s, i + 1)
            IN  IF j <= Len(s) /\ s[j] = "}" THEN j + 1 ELSE ParseMembers(s, j)
    ELSE IF s[i] = "\"" THEN ParseChars(s, i + 1)
    ELSE IF s[i] \in Digits \cup {"-"} THEN ParseNumber(s, i)
    ELSE IF MatchAt(s, <<"t", "r", "u", "e">>, i) THEN i + 4
    ELSE IF MatchAt(s, <<"f", "a", "l", "s", "e">>, i) THEN i + 5
    ELSE IF MatchAt(s, <<"n", "u", "l", "l">>, i) THEN i + 4
    ELSE 0

\* i is the position of the first character of an element
ParseElements(s, i) ==
    LET v == ParseValue(s, i)
        k == SkipWs(s, v)
    IN  IF v = 0 \/ k > Len(s) THEN 0
        ELSE IF s[k] = "]" THEN k + 1
        ELSE IF s[k] = "," THEN ParseElements(s, SkipWs(s, k + 1))
        ELSE 0

\* i is the position of the first character of a member
ParseMembers(s, i) ==
    LET n == IF i <= Len(s) /\ s[i] = "\"" THEN ParseChars(s, i + 1) ELSE 0
        c == SkipWs(s, n)
        v == IF n = 0 \/ c > Len(s) \/ s[c] # ":" THEN 0
             ELSE ParseValue(s, SkipWs(s, c + 1))
        k == SkipWs(s, v)
    IN  IF v = 0 \/ k > Len(s) THEN 0
        ELSE IF s[k] = "}" THEN k + 1
        ELSE IF s[k] = "," THEN ParseMembers(s, SkipWs(s, k + 1))
        ELSE 0

JsonValid(s) ==
    LET v == ParseValue(s, SkipWs(s, 1))
    IN  v # 0 /\ SkipWs(s, v) = Len(s) + 1

(***************************************************************************)
(* sanitize (mockData.ts:381)                                              *)
(***************************************************************************)
Fence == <<BackQuote, BackQuote, BackQuote>>
FollowUp == <<"f", "o", "l", "l", "o", "w", "-", "u", "p">>
ExplainSimply == <<"e", "x", "p", "l", "a", "i", "n", "-", "s", "i", "m", "p", "l", "y">>
FollowUpAnswer == FollowUp \o <<"-", "a", "n", "s", "w", "e", "r">>
VisualGuide == <<"v", "i", "s", "u", "a", "l", "-", "g", "u", "i", "d", "e">>
InteractivePractice ==
    <<"i", "n", "t", "e", "r", "a", "c", "t", "i", "v", "e", "-",
      "p", "r", "a", "c", "t", "i", "c", "e">>
RealApplications ==
    <<"r", "e", "a", "l", "-",
      "a", "p", "p", "l", "i", "c", "a", "t", "i", "o", "n", "s">>
DeepDive == <<"d", "e", "e", "p", "-", "d", "i", "v", "e">>
ExamMastery == <<"e", "x", "a", "m", "-", "m", "a", "s", "t", "e", "r", "y">>
ConceptMap == <<"c", "o", "n", "c", "e", "p", "t", "-", "m", "a", "p">>
CommonMistakes ==
    <<"c", "o", "m", "m", "o", "n", "-", "m", "i", "s", "t", "a", "k", "e", "s">>
\* type PromptType (mockData.ts:150)
PromptType ==
    {ExplainSimply, VisualGuide, InteractivePractice, RealApplications,
     DeepDive, ExamMastery, ConceptMap, CommonMistakes, FollowUp,
     FollowUpAnswer}
EmptyArray == <<"[", "]">>

\* text.replace(/FENCE[\s\S]*?FENCE/g, '') where FENCE is three backquotes:
\* the leftmost opening fence with the nearest closing fence, repeated
RECURSIVE StripFences(_)
StripFences(s) ==
    IF s = <<>> THEN <<>>
    ELSE IF MatchAt(s, Fence, 1) /\ Includes(SubSeq(s, 4, Len(s)), Fence)
         THEN LET rest == SubSeq(s, 4, Len(s))
              IN  StripFences(SubSeq(rest, IndexOf(rest, Fence) + 4, Len(rest)))
         ELSE <<Head(s)>> \o StripFences(Tail(s))

\* variant of sanitize: the bracketed text is returned even when it does not
\* parse
sanitizeWithoutFallback(text, type) ==
    LET out   == Trim(StripFences(text))
        start == IndexOf(out, <<"[">>)
        end   == LastIndexOf(out, <<"]">>) + 1
    IN  IF type = FollowUp THEN Slice(out, start, end) ELSE out

sanitize(text, type) ==
    LET out   == Trim(StripFences(text))
        start == IndexOf(out, <<"[">>)
        end   == LastIndexOf(out, <<"]">>) + 1
        cut   == Slice(out, start, end)
    IN  IF type = FollowUp
        THEN (IF JsonValid(cut) THEN cut ELSE EmptyArray)
        ELSE out

(***************************************************************************)
(* The other copies of the clean-up: sanitizeOutput of the copy of the     *)
(* service in src/unnamed/part_003 and of the one in services/aiService.ts *)
(***************************************************************************)
\* s.replace(/[...]/g, ''): the characters of the set cs removed
RECURSIVE RemoveChars(_, _)
RemoveChars(s, cs) ==
    IF s = <<>> THEN <<>>
    ELSE IF Head(s) \in cs THEN RemoveChars(Tail(s), cs)
    ELSE <<Head(s)>> \o RemoveChars(Tail(s), cs)

\* the position after the run of characters of cs that starts at i
RECURSIVE SkipRun(_, _, _)
SkipRun(s, i, cs) ==
    IF i <= Len(s) /\ s[i] \in cs THEN SkipRun(s, i + 1, cs) ELSE i

\* s.replace(/#+\s*/g, ''): every run of # and the white space after it
RECURSIVE StripHeadings(_)
StripHeadings(s) ==
    IF s = <<>> THEN <<>>
    ELSE IF Head(s) = "#"
         THEN StripHeadings(
                  SubSeq(s, SkipRun(s, SkipRun(s, 1, {"#"}), WhiteSpace), Len(s)))
         ELSE <<Head(s)>> \o StripHeadings(Tail(s))

\* sanitizeOutput(text, type) of src/unnamed/part_003
sanitizeOutputPart003(text, type) ==
    LET out   == Trim(StripHeadings(RemoveChars(StripFences(text), {BackQuote})))
        start == IndexOf(out, <<"[">>)
        end   == LastIndexOf(out, <<"]">>) + 1
        cut   == IF start >= 0 /\ end > start THEN Slice(out, start, end) ELSE out
    IN  IF type = FollowUp
        THEN (IF JsonValid(cut) THEN cut ELSE EmptyArray)
        ELSE out

\* sanitizeOutput(text) of services/aiService.ts
sanitizeOutputAiService(text) ==
    Trim(RemoveChars(StripFences(text), {BackQuote, "*", "_", "#"}))

\* String.prototype.split on the one-character separator sep
RECURSIVE Split(_, _)
Split(s, sep) ==
    IF ~Includes(s, <<sep>>) THEN <<s>>
    ELSE LET i == IndexOf(s, <<sep>>)
         IN  <<SubSeq(s, 1, i)>> \o Split(SubSeq(s, i + 2, Len(s)), sep)

\* Array.prototype.filter with the test that the line starts with a hyphen
\* or a bullet
RECURSIVE FilterBullets(_)
FilterBullets(lines) ==
    IF lines = <<>> THEN <<>>
    ELSE IF Head(lines) # <<>> /\ Head(Head(lines)) \in {"-", Bullet}
         THEN <<Head(lines)>> \o FilterBullets(Tail(lines))
         ELSE FilterBullets(Tail(lines))

QuickReferenceMarker ==
    <<"Q", "u", "i", "c", "k", "R", "e", "f", "e", "r", "e", "n", "c", "e", ":">>

\* the items extractQuickReference finds, before .slice(0, 5)
QuickReferenceItems(text) ==
    LET rest  == SubSeq(text, IndexOf(text, QuickReferenceMarker)
                                + Len(QuickReferenceMarker) + 1, Len(text))
        lines == Split(rest, "\n")
        trimmed == [i \in 1..Len(lines) |-> Trim(lines[i])]
        bullets == FilterBullets(trimmed)
    IN  [i \in 1..Len(bullets) |-> TrimStart(Tail(bullets[i]))]

\* extractQuickReference of services/aiService.ts
extractQuickReference(text) ==
    IF IndexOf(text, QuickReferenceMarker) < 0 THEN <<>>
    ELSE LET items == QuickReferenceItems(text)
         IN  SubSeq(items, 1, Min(5, Len(items)))

\* the copies of the service, and the clean-up each applies
MockData == "data/mockData.ts"
Part003 == "unnamed/part_003"
AiService == "services/aiService.ts"
\* the exported function generateContent of services/aiService.ts, which the
\* pages call: it returns and stores the response as received
GenerateContent == "services/aiService.ts generateContent"

\* variant of Sanitized: the response is returned and stored as received
Unsanitized(copy, text, type) == text

Sanitized(copy, text, type) ==
    IF copy = Part003 THEN sanitizeOutputPart003(text, type)
    ELSE IF copy = AiService THEN sanitizeOutputAiService(text)
    ELSE IF copy = GenerateContent THEN text
    ELSE sanitize(text, type)

\* the quickReference of the ContentResult the copy returns for the text
\* full; the other copies return the text alone
QuickReferenceOf(copy, full) ==
    IF copy = AiService THEN extractQuickReference(full) ELSE Null

(***************************************************************************)
(* CacheService (mockData.ts:164)                                          *)
(***************************************************************************)
\* new CacheService(24 * 3600 * 1000)
ttlMs == 24 * 3600 * 1000

\* Map.prototype.set and Map.prototype.delete on a map held as a function
MapSet(m, k, v) == [x \in DOMAIN m \cup {k} |-> IF x = k THEN v ELSE m[x]]
MapDelete(m, k) == [x \in DOMAIN m \ {k} |-> m[x]]

\* variants of Stale: the ages compared the wrong way round, and an entry
\* already stale at the age of exactly one TTL
StaleReversed(entry, t) == entry.timestamp - t > ttlMs
StaleAtTtl(entry, t) == t - entry.timestamp >= ttlMs

\* an entry is stale when it is older than the TTL
Stale(entry, t) == t - entry.timestamp > ttlMs

\* variant of CacheGet: a miss clears the whole store
CacheGetClearing(st, k, t) ==
    IF k \notin DOMAIN st \/ Stale(st[k], t)
    THEN [value |-> Null, store |-> <<>>]
    ELSE [value |-> st[k].content, store |-> st]

\* variant of CacheGet: a stale entry is not returned but stays in the store
CacheGetKeepingStale(st, k, t) ==
    IF k \notin DOMAIN st \/ Stale(st[k], t)
    THEN [value |-> Null, store |-> st]
    ELSE [value |-> st[k].content, store |-> st]

\* CacheService.get: the value returned and the store it leaves behind
CacheGet(st, k, t) ==
    IF k \notin DOMAIN st \/ Stale(st[k], t)
    THEN [value |-> Null, store |-> MapDelete(st, k)]
    ELSE [value |-> st[k].content, store |-> st]

\* variant of CacheSet: an entry that exists is kept, the first writer wins
CacheSetUnlessPresent(st, k, content, t) ==
    IF k \in DOMAIN st THEN st
    ELSE MapSet(st, k, [content |-> content, timestamp |-> t])

\* variant of CacheSet: storing an entry removes every other entry
CacheSetAlone(st, k, content, t) ==
    MapSet(<<>>, k, [content |-> content, timestamp |-> t])

\* variant of CacheSet: an entry that exists keeps the time it was created at
CacheSetKeepingTime(st, k, content, t) ==
    MapSet(st, k, [content |-> content,
                   timestamp |-> IF k \in DOMAIN st THEN st[k].timestamp
                                 ELSE t])

\* CacheService.set
CacheSet(st, k, content, t) ==
    MapSet(st, k, [content |-> content, timestamp |-> t])

(***************************************************************************)
(* Failures of the remote call and their classification                    *)
(***************************************************************************)
\* the status of a failure that carries none (err.status is undefined)
NoStatus == -1
RETRYABLE == {408, 429, 500, 502, 503, 504}
\* variant of isRetryable: every failure that carries a status is retried
isRetryableAnyStatus(err) == err.status # NoStatus
isRetryable(err) == err.status \in RETRYABLE

Errors ==
    [invalidKey    |-> "Invalid API key. Check your OpenAI configuration.",
     rateLimit     |-> "Rate limit reached; try again later.",
     quotaExceeded |-> "Quota exceeded; check billing or upgrade.",
     generic       |-> "Failed to generate content; please retry."]

ApiKeyText == <<"A", "P", "I", " ", "k", "e", "y">>
QuotaText == <<"q", "u", "o", "t", "a">>

\* variant of formatError: the status is looked at before the message
formatErrorStatusFirst(err) ==
    IF err.status = 429 THEN Errors.rateLimit
    ELSE IF Includes(err.message, ApiKeyText) THEN Errors.invalidKey
    ELSE IF Includes(err.message, QuotaText) THEN Errors.quotaExceeded
    ELSE Errors.generic

formatError(err) ==
    IF Includes(err.message, ApiKeyText) THEN Errors.invalidKey
    ELSE IF err.status = 429 THEN Errors.rateLimit
    ELSE IF Includes(err.message, QuotaText) THEN Errors.quotaExceeded
    ELSE Errors.generic

\* the messages of the copies in unnamed/part_003 and services/aiService.ts
ErrorMessages ==
    [invalidKey    |-> "Invalid API key. Please verify your OpenAI configuration.",
     rateLimit     |-> "Rate limit reached. Try again later or upgrade your plan.",
     quotaExceeded |-> "Quota exceeded. Check your billing or upgrade.",
     generic       |-> "Failed to generate content. Please retry later."]

formatErrorMessages(err) ==
    IF Includes(err.message, ApiKeyText) THEN ErrorMessages.invalidKey
    ELSE IF err.status = 429 THEN ErrorMessages.rateLimit
    ELSE IF Includes(err.message, QuotaText) THEN ErrorMessages.quotaExceeded
    ELSE ErrorMessages.generic

\* the messages of getErrorMessage, beside generateContent
ErrorMessageTexts ==
    [invalidKey    |-> "Invalid API key. Please check your OpenAI API key configuration.",
     rateLimit     |-> "API rate limit exceeded. Please try again in a few minutes. If this persists, consider upgrading your OpenAI account.",
     quotaExceeded |-> "API quota exceeded. Please check your OpenAI account billing status or upgrade your plan.",
     generic       |-> "Failed to generate content. Please try again later."]

getErrorMessage(err) ==
    IF Includes(err.message, ApiKeyText) THEN ErrorMessageTexts.invalidKey
    ELSE IF err.status = 429 THEN ErrorMessageTexts.rateLimit
    ELSE IF Includes(err.message, QuotaText) THEN ErrorMessageTexts.quotaExceeded
    ELSE ErrorMessageTexts.generic

\* throw new Error(formatError(err)) in the copy that runs
Formatted(copy, err) ==
    IF copy = MockData THEN formatError(err)
    ELSE IF copy = GenerateContent THEN getErrorMessage(err)
    ELSE formatErrorMessages(err)

\* new Error('No content returned'): an Error without a status
NoContentError ==
    [status  |-> NoStatus,
     message |-> <<"N", "o", " ", "c", "o", "n", "t", "e", "n", "t", " ",
                   "r", "e", "t", "u", "r", "n", "e", "d">>]

\* the Error each copy throws for a response without content
NoContentErrorOf(copy) ==
    IF copy = AiService
    THEN [status  |-> NoStatus,
          message |-> NoContentError.message \o <<" ", "b", "y", " ", "A", "I">>]
    ELSE IF copy = GenerateContent
    THEN [status  |-> NoStatus,
          message |-> <<"N", "o", " ", "c", "o", "n", "t", "e", "n", "t", " ",
                        "g", "e", "n", "e", "r", "a", "t", "e", "d">>]
    ELSE NoContentError

(***************************************************************************)
(* backOff(call, options) with the options generate passes (mockData.ts:433)*)
(***************************************************************************)
numOfAttempts == 5
startingDelay == 2000
timeMultiple == 2
maxDelay == 20000

\* variant of BackOffDelay: the exponent counts from one
BackOffDelayFromOne(n) == Min(startingDelay * Pow(timeMultiple, n), maxDelay)

\* the delay before the attempt that follows n failed attempts (n >= 1); the
\* first attempt is not delayed and no jitter is configured
BackOffDelay(n) == Min(startingDelay * Pow(timeMultiple, n - 1), maxDelay)

\* variant of AttemptLimitReached: one attempt more
AttemptLimitReachedLate(n) == n > numOfAttempts

\* the attempt limit is reached after n failed attempts
AttemptLimitReached(n) == n >= numOfAttempts

\* variant of Rejected: the first failure is kept
RejectedFirst(es) == es[1]

\* the error backOff rejects with, given the failures it caught, in order
Rejected(es) == es[Len(es)]

(***************************************************************************)
(* ContentService                                                          *)
(***************************************************************************)
\* ContentService.key
key(t, k) == t \o <<":", ":">> \o k

\* getCacheKey, beside generateContent: one colon between topic and kind
getCacheKey(t, k) == t \o <<":">> \o k

\* the key under which the copy that runs stores the result of (t, k)
KeyFor(copy, t, k) ==
    IF copy = GenerateContent THEN getCacheKey(t, k) ELSE key(t, k)

(***************************************************************************)
(* Inputs: topics and kinds asked for, contents and failures of the remote *)
(* call, steps of the clock                                                *)
(***************************************************************************)
Calls == 1..NumCalls

Ohm == <<"O", "h", "m">>
OhmLower == <<"o", "h", "m">>

\* choices[0].message.content of a response
TextPlain == <<"h", "i">>
TextFenced == <<BackQuote, BackQuote, BackQuote, "x", BackQuote, BackQuote, BackQuote>>
TextMixed ==
    <<" ", "[", "1", "]", BackQuote, BackQuote, BackQuote, "y",
      BackQuote, BackQuote, BackQuote, "\n">>

Failure(status, message) == [status |-> status, message |-> message]
MsgRate == <<"s", "l", "o", "w">>
MsgQuota == <<"n", "o", " ", "q", "u", "o", "t", "a">>
MsgApiKey == <<"b", "a", "d", " ", "A", "P", "I", " ", "k", "e", "y">>
MsgPlain == <<"o", "o", "p", "s">>

\* the clock moves by one millisecond or by one TTL, MaxTicks times in all
ClockSteps == {1, ttlMs}
Ticks(t) == (t % ttlMs) + (t \div ttlMs)

(***************************************************************************)
(* State                                                                   *)
(***************************************************************************)
VARIABLES
    impl,           \* the copy of the service that runs
    now,            \* Date.now()
    store,          \* CacheService.store: key -> [content, timestamp]
    pc,             \* where each generate call is
    topic,          \* its arguments
    type,
    found,          \* the entry its key had when it looked the cache up
    lookedAt,       \* Date.now() at that lookup
    cached,         \* what this.cache.get returned to it
    attemptNumber,  \* failed attempts counted by backOff
    remoteCalls,    \* requests the call handed to openai.chat.completions.create
    delays,         \* delays backOff has set, in order
    errs,           \* failures backOff has caught, in order
    userPrompt,     \* the user message of the requests of the call
    raw,            \* the text the remote call resolved with
    result,         \* the string the call resolved with
    quickReference, \* the quickReference of the ContentResult it resolved with
    thrown,         \* the message of the Error the call rejected with
    selectedTopic,  \* SubjectPage: the topic selected, NoTopic when none
    content,        \* SubjectPage: the content shown, NoContent when none
    followUpQuestions,   \* SubjectPage: the follow-up questions shown
    isGeneratingContent, \* SubjectPage: the flag of the loading indicator
    error,          \* SubjectPage: the message shown, NoError when none
    handler,        \* the position of each call of a handler of SubjectPage
    closure,        \* the selectedTopic each call of a handler has captured
    question        \* the question handleSelectFollowUp was called with

\* the state of SubjectPage (pages/ChaptersPage.tsx) and of its handlers
pageVars ==
    <<selectedTopic, content, followUpQuestions, isGeneratingContent, error,
      handler, closure, question>>

vars ==
    <<impl, now, store, pc, topic, type, found, lookedAt, cached,
      attemptNumber, remoteCalls, delays, errs, userPrompt, raw, result,
      quickReference, thrown, selectedTopic, content, followUpQuestions,
      isGeneratingContent, error, handler, closure, question>>

NotThrown == "<none>"
EmptyMap == [x \in {} |-> Null]
NoEntry == [content |-> Null, timestamp |-> 0]
Settled == {"returned", "failed"}
\* the null of selectedTopic, of content and of error in SubjectPage
NoTopic == [id |-> "<null>", title |-> Null]
NoContent == [topicId |-> "<null>", title |-> Null, content |-> Null]
NoError == "<null>"
\* the question of a call that is not one of handleSelectFollowUp
NoQuestion == [topicId |-> "<null>", question |-> Null]

\* the state after construction of the copy i of the service
InitOf(i) ==
    /\ impl = i
    /\ now = 0
    /\ store = EmptyMap
    /\ pc = [c \in Calls |-> "idle"]
    /\ topic = [c \in Calls |-> Null]
    /\ type = [c \in Calls |-> Null]
    /\ found = [c \in Calls |-> NoEntry]
    /\ lookedAt = [c \in Calls |-> 0]
    /\ cached = [c \in Calls |-> Null]
    /\ attemptNumber = [c \in Calls |-> 0]
    /\ remoteCalls = [c \in Calls |-> 0]
    /\ delays = [c \in Calls |-> <<>>]
    /\ errs = [c \in Calls |-> <<>>]
    /\ userPrompt = [c \in Calls |-> Null]
    /\ raw = [c \in Calls |-> Null]
    /\ result = [c \in Calls |-> Null]
    /\ quickReference = [c \in Calls |-> Null]
    /\ thrown = [c \in Calls |-> NotThrown]
    /\ selectedTopic = NoTopic
    /\ content = NoContent
    /\ followUpQuestions = <<>>
    /\ isGeneratingContent = FALSE
    /\ error = NoError
    /\ handler = [c \in Calls |-> "idle"]
    /\ closure = [c \in Calls |-> NoTopic]
    /\ question = [c \in Calls |-> NoQuestion]

Init == InitOf(MockData)

(***************************************************************************)
(* The user prompt (mockData.ts:407, aiService.ts:189).  Every copy has    *)
(* its own object promptTemplates of ten templates, one for each kind, and *)
(* every template holds the placeholder once.  The text of a template      *)
(* before its placeholder and the text after it are kept as one element    *)
(* each, named after the copy and the kind: replace never looks into them, *)
(* it only carries them.                                                   *)
(***************************************************************************)
Placeholder == <<"%", "T", "O", "P", "I", "C", "%">>

\* the template of the kind named n in the object of the copy
TemplateOf(copy, n) ==
    <<"<" \o copy \o ": " \o n \o " template up to the placeholder>">>
    \o Placeholder
    \o <<"<" \o copy \o ": " \o n \o " template after the placeholder>">>

\* the names every object literal inherits from Object.prototype: a lookup
\* of one of them in an object of templates gives a function (an object for
\* __proto__), which is truthy and is no string
ObjectPrototype ==
    {<<"c", "o", "n", "s", "t", "r", "u", "c", "t", "o", "r">>,
     <<"h", "a", "s", "O", "w", "n", "P", "r", "o", "p", "e", "r", "t",
       "y">>,
     <<"i", "s", "P", "r", "o", "t", "o", "t", "y", "p", "e", "O", "f">>,
     <<"p", "r", "o", "p", "e", "r", "t", "y", "I", "s", "E", "n", "u",
       "m", "e", "r", "a", "b", "l", "e">>,
     <<"t", "o", "L", "o", "c", "a", "l", "e", "S", "t", "r", "i", "n",
       "g">>,
     <<"t", "o", "S", "t", "r", "i", "n", "g">>,
     <<"v", "a", "l", "u", "e", "O", "f">>,
     <<"_", "_", "p", "r", "o", "t", "o", "_", "_">>,
     <<"_", "_", "d", "e", "f", "i", "n", "e", "G", "e", "t", "t", "e",
       "r", "_", "_">>,
     <<"_", "_", "d", "e", "f", "i", "n", "e", "S", "e", "t", "t", "e",
       "r", "_", "_">>,
     <<"_", "_", "l", "o", "o", "k", "u", "p", "G", "e", "t", "t", "e",
       "r", "_", "_">>,
     <<"_", "_", "l", "o", "o", "k", "u", "p", "S", "e", "t", "t", "e",
       "r", "_", "_">>}

\* promptTemplates[k] in the copy: the template of a PromptType, the
\* inherited value for an inherited name, written as a mark and the name,
\* and undefined for any other k
promptTemplates(copy, k) ==
    CASE k = ExplainSimply -> TemplateOf(copy, "explain-simply")
      [] k = VisualGuide -> TemplateOf(copy, "visual-guide")
      [] k = InteractivePractice -> TemplateOf(copy, "interactive-practice")
      [] k = RealApplications -> TemplateOf(copy, "real-applications")
      [] k = DeepDive -> TemplateOf(copy, "deep-dive")
      [] k = ExamMastery -> TemplateOf(copy, "exam-mastery")
      [] k = ConceptMap -> TemplateOf(copy, "concept-map")
      [] k = CommonMistakes -> TemplateOf(copy, "common-mistakes")
      [] k = FollowUp -> TemplateOf(copy, "follow-up")
      [] k = FollowUpAnswer -> TemplateOf(copy, "follow-up-answer")
      [] k \in ObjectPrototype -> <<"<Object.prototype>">> \o k
      [] OTHER -> Null

\* what String.prototype.replace inserts for the replacement text r: $$ is a
\* dollar, $& the match, $ and a backquote the text before the match, $' the
\* text after it; the pattern has no group, so any other $ stays
RECURSIVE GetSubstitution(_, _, _, _)
GetSubstitution(r, before, matched, after) ==
    IF r = <<>> THEN <<>>
    ELSE IF Head(r) = "$" /\ Len(r) >= 2 /\ r[2] \in {"$", "&", BackQuote, "'"}
         THEN (CASE r[2] = "$" -> <<"$">>
                 [] r[2] = "&" -> matched
                 [] r[2] = BackQuote -> before
                 [] OTHER -> after)
              \o GetSubstitution(SubSeq(r, 3, Len(r)), before, matched, after)
         ELSE <<Head(r)>> \o GetSubstitution(Tail(r), before, matched, after)

\* s.replace(/p/g, r) for a pattern p of plain characters, from position i on
RECURSIVE ReplaceFrom(_, _, _, _)
ReplaceFrom(s, p, r, i) ==
    IF i > Len(s) THEN <<>>
    ELSE IF MatchAt(s, p, i)
         THEN GetSubstitution(r, SubSeq(s, 1, i - 1), p,
                              SubSeq(s, i + Len(p), Len(s)))
              \o ReplaceFrom(s, p, r, i + Len(p))
         ELSE <<s[i]>> \o ReplaceFrom(s, p, r, i + 1)

\* prompt(topic, type) of mockData.ts and buildPrompt of unnamed/part_003,
\* each over the templates of its copy; the callers pass a PromptType
prompt(copy, t, k) == ReplaceFrom(promptTemplates(copy, k), Placeholder, t, 1)

\* buildPrompt(topic, type) of services/aiService.ts
buildPrompt(t, k) ==
    LET base == ReplaceFrom(promptTemplates(AiService, k), Placeholder, t, 1)
    IN  IF k # FollowUp
        THEN base \o <<"<QuickReference instruction>">>
        ELSE base

\* the template literal of the kind named n in generatePrompt with the
\* topic t interpolated; every literal holds the topic once
LiteralOf(t, n) ==
    <<"<" \o n \o " template literal up to the topic>">> \o t
    \o <<"<" \o n \o " template literal after the topic>">>

\* generatePrompt(topic, promptType), beside generateContent: the topic is
\* interpolated into the template literal of the kind.  The lookup of a
\* name inherited from Object.prototype gives the inherited value, which is
\* truthy and is returned as it is, written as a mark and the name; only a
\* lookup that gives undefined falls back to the literal of explain-simply
\* (aiService.ts:461)
generatePrompt(t, k) ==
    CASE k = ExplainSimply -> LiteralOf(t, "explain-simply")
      [] k = VisualGuide -> LiteralOf(t, "visual-guide")
      [] k = InteractivePractice -> LiteralOf(t, "interactive-practice")
      [] k = RealApplications -> LiteralOf(t, "real-applications")
      [] k = DeepDive -> LiteralOf(t, "deep-dive")
      [] k = ExamMastery -> LiteralOf(t, "exam-mastery")
      [] k = ConceptMap -> LiteralOf(t, "concept-map")
      [] k = CommonMistakes -> LiteralOf(t, "common-mistakes")
      [] k = FollowUp -> LiteralOf(t, "follow-up")
      [] k = FollowUpAnswer -> LiteralOf(t, "follow-up-answer")
      [] k \in ObjectPrototype -> <<"<Object.prototype>">> \o k
      [] OTHER -> LiteralOf(t, "explain-simply")

Prompted(copy, t, k) ==
    IF copy = AiService THEN buildPrompt(t, k)
    ELSE IF copy = GenerateContent THEN generatePrompt(t, k)
    ELSE prompt(copy, t, k)

(***************************************************************************)
(* ContentService.generate (mockData.ts:411)                               *)
(***************************************************************************)
\* generate(t, k) up to its first suspension: the cache lookup, and on a miss
\* the first attempt of backOff, which is not delayed
GenerateCall(c, t, k) ==
    LET got == CacheGet(store, KeyFor(impl, t, k), now)
    IN  /\ pc[c] \in {"idle"} \cup Settled
        /\ store' = got.store
        /\ found' = [found EXCEPT ![c] =
                        IF KeyFor(impl, t, k) \in DOMAIN store
                        THEN store[KeyFor(impl, t, k)]
                        ELSE NoEntry]
        /\ lookedAt' = [lookedAt EXCEPT ![c] = now]
        /\ topic' = [topic EXCEPT ![c] = t]
        /\ type' = [type EXCEPT ![c] = k]
        /\ cached' = [cached EXCEPT ![c] = got.value]
        /\ attemptNumber' = [attemptNumber EXCEPT ![c] = 0]
        /\ delays' = [delays EXCEPT ![c] = <<>>]
        /\ errs' = [errs EXCEPT ![c] = <<>>]
        /\ raw' = [raw EXCEPT ![c] = Null]
        /\ thrown' = [thrown EXCEPT ![c] = NotThrown]
        /\ IF Truthy(got.value)
           THEN /\ pc' = [pc EXCEPT ![c] = "returned"]
                /\ userPrompt' = [userPrompt EXCEPT ![c] = Null]
                /\ result' = [result EXCEPT ![c] = got.value]
                /\ quickReference' = [quickReference EXCEPT ![c] =
                                          QuickReferenceOf(impl, got.value)]
                /\ remoteCalls' = [remoteCalls EXCEPT ![c] = 0]
           ELSE /\ pc' = [pc EXCEPT ![c] = "fetching"]
                /\ userPrompt' = [userPrompt EXCEPT ![c] = Prompted(impl, t, k)]
                /\ result' = [result EXCEPT ![c] = Null]
                /\ quickReference' = [quickReference EXCEPT ![c] = Null]
                /\ remoteCalls' = [remoteCalls EXCEPT ![c] = 1]
        /\ UNCHANGED <<impl, now>>

\* generate(t, k) called by a caller that is not a handler of SubjectPage
Generate(c, t, k) == GenerateCall(c, t, k) /\ UNCHANGED pageVars

\* the catch block of backOff on the failure e of the running attempt, and,
\* when backOff rejects, the catch block of generate
Catch(c, e) ==
    LET n  == attemptNumber[c] + 1
        es == Append(errs[c], e)
    IN  /\ attemptNumber' = [attemptNumber EXCEPT ![c] = n]
        /\ errs' = [errs EXCEPT ![c] = es]
        /\ IF ~isRetryable(e) \/ AttemptLimitReached(n)
           THEN /\ pc' = [pc EXCEPT ![c] = "failed"]
                /\ thrown' = [thrown EXCEPT ![c] =
                                 Formatted(impl, Rejected(es))]
                /\ UNCHANGED delays
           ELSE /\ pc' = [pc EXCEPT ![c] = "delaying"]
                /\ delays' = [delays EXCEPT ![c] = Append(@, BackOffDelay(n))]
                /\ UNCHANGED thrown
        /\ UNCHANGED <<impl, now, store, topic, type, found, lookedAt, cached,
                       remoteCalls, userPrompt, raw, result, quickReference>>
        /\ UNCHANGED pageVars

\* variant of HasContent: only a missing content is refused, '' is accepted
HasContentUnlessNull(txt) == txt # Null

\* const txt = ...content; if (!txt) throw ...: the response has a text
HasContent(txt) == Truthy(txt)

\* the request of the running attempt rejects with the failure f
RemoteFails(c, f) ==
    /\ pc[c] = "fetching"
    /\ Catch(c, f)

\* the request of the running attempt resolves with a response whose
\* choices[0].message.content is txt (Null when there is none)
RemoteResponds(c, txt) ==
    /\ pc[c] = "fetching"
    /\ IF ~HasContent(txt)
       THEN Catch(c, NoContentErrorOf(impl))
       ELSE LET res == Sanitized(impl, txt, type[c])
            IN  /\ store' = CacheSet(store, KeyFor(impl, topic[c], type[c]),
                                      res, now)
                /\ raw' = [raw EXCEPT ![c] = txt]
                /\ result' = [result EXCEPT ![c] = res]
                /\ quickReference' = [quickReference EXCEPT ![c] =
                                          QuickReferenceOf(impl, res)]
                /\ pc' = [pc EXCEPT ![c] = "returned"]
                /\ UNCHANGED <<impl, now, topic, type, found, lookedAt, cached,
                               attemptNumber, remoteCalls, delays, errs,
                               userPrompt, thrown>>
                /\ UNCHANGED pageVars

\* variant of TimerFires: the timer of a delay after the first is lost
TimerFiresOnce(c) ==
    /\ pc[c] = "delaying"
    /\ attemptNumber[c] < 2
    /\ pc' = [pc EXCEPT ![c] = "fetching"]
    /\ remoteCalls' = [remoteCalls EXCEPT ![c] = @ + 1]
    /\ UNCHANGED <<impl, now, store, topic, type, found, lookedAt, cached,
                   attemptNumber, delays, errs, userPrompt, raw, result,
                   quickReference, thrown>>
    /\ UNCHANGED pageVars

\* the timer of the backoff delay fires and the next attempt sends its request
TimerFires(c) ==
    /\ pc[c] = "delaying"
    /\ pc' = [pc EXCEPT ![c] = "fetching"]
    /\ remoteCalls' = [remoteCalls EXCEPT ![c] = @ + 1]
    /\ UNCHANGED <<impl, now, store, topic, type, found, lookedAt, cached,
                   attemptNumber, delays, errs, userPrompt, raw, result,
                   quickReference, thrown>>
    /\ UNCHANGED pageVars

\* time passes
Tick(d) ==
    /\ Ticks(now) < MaxTicks
    /\ now' = now + d
    /\ UNCHANGED <<impl, store, pc, topic, type, found, lookedAt, cached,
                   attemptNumber, remoteCalls, delays, errs, userPrompt, raw,
                   result, quickReference, thrown>>
    /\ UNCHANGED pageVars

(***************************************************************************)
(* Spec: one caller that awaits each generate before it calls the next,    *)
(* over two keys, with every shape of response and a clock that moves      *)
(***************************************************************************)
\* the slot of the one caller: the first of Calls
Caller == CHOOSE c \in Calls : \A d \in Calls : c <= d
Requests == {<<Ohm, ExplainSimply>>, <<OhmLower, FollowUp>>}
Contents == {TextPlain, TextFenced, TextMixed, <<>>, Null}
Failures == {Failure(429, MsgRate), Failure(401, MsgApiKey)}

Next ==
    \/ \E r \in Requests : Generate(Caller, r[1], r[2])
    \/ \E txt \in Contents : RemoteResponds(Caller, txt)
    \/ \E f \in Failures : RemoteFails(Caller, f)
    \/ TimerFires(Caller)
    \/ \E d \in ClockSteps : Tick(d)

Spec == Init /\ [][Next]_vars

(***************************************************************************)
(* SpecRetry: the same caller on one key, with every kind of failure       *)
(***************************************************************************)
RetryRequests == {<<Ohm, ExplainSimply>>}
RetryContents == {TextPlain, Null}
RetryFailures ==
    {Failure(st, MsgPlain) : st \in RETRYABLE \cup {400, NoStatus}}
    \cup {Failure(429, MsgRate), Failure(429, MsgQuota), Failure(429, MsgApiKey),
          Failure(503, MsgQuota), Failure(401, MsgApiKey),
          Failure(NoStatus, MsgQuota)}

NextRetry ==
    \/ \E r \in RetryRequests : Generate(Caller, r[1], r[2])
    \/ \E txt \in RetryContents : RemoteResponds(Caller, txt)
    \/ \E f \in RetryFailures : RemoteFails(Caller, f)
    \/ TimerFires(Caller)

SpecRetry == Init /\ [][NextRetry]_vars

(***************************************************************************)
(* The clean-up of every copy on every short response: one request per     *)
(* behaviour, answered by a text made of at most MaxPieces pieces          *)
(***************************************************************************)
Copies == {MockData, Part003, AiService}

Pieces ==
    {<<"[">>, <<"]">>, <<"1">>, <<",">>, <<" ">>, <<"#">>, <<BackQuote>>, Fence}

RECURSIVE Flatten(_)
Flatten(ps) == IF ps = <<>> THEN <<>> ELSE Head(ps) \o Flatten(Tail(ps))

Texts == {Flatten(ps) : ps \in UNION {[1..n -> Pieces] : n \in 0..MaxPieces}}

SanitizeRequests == {<<Ohm, ExplainSimply>>, <<Ohm, FollowUp>>}

InitSanitize == \E i \in Copies : InitOf(i)

NextSanitize ==
    \/ \E r \in SanitizeRequests :
           pc[Caller] = "idle" /\ Generate(Caller, r[1], r[2])
    \/ \E txt \in Texts : RemoteResponds(Caller, txt)

SpecSanitize == InitSanitize /\ [][NextSanitize]_vars

(***************************************************************************)
(* The prompt of every copy for every short topic, among them the topics   *)
(* that hold the characters String.prototype.replace gives a meaning to    *)
(***************************************************************************)
TopicChars == {"a", "$", "&", "'", BackQuote}

Topics == UNION {[1..n -> TopicChars] : n \in 1..MaxTopicLen}

PromptKinds == PromptType
PromptContents == {TextPlain}

NextPrompt ==
    \/ \E t \in Topics, k \in PromptKinds :
           pc[Caller] = "idle" /\ Generate(Caller, t, k)
    \/ \E txt \in PromptContents : RemoteResponds(Caller, txt)

SpecPrompt == InitSanitize /\ [][NextPrompt]_vars

(***************************************************************************)
(* Concurrent requests: every call slot issues one request, and the steps  *)
(* of the calls in flight interleave in any order; the requests overlap in *)
(* a time too short for the clock to matter, so it stands still            *)
(***************************************************************************)
ConcRequests == {<<Ohm, ExplainSimply>>, <<OhmLower, FollowUp>>}
ConcContents == {TextPlain, TextMixed}
ConcFailures == {Failure(429, MsgRate)}

NextConc ==
    \/ \E c \in Calls, r \in ConcRequests :
           pc[c] = "idle" /\ Generate(c, r[1], r[2])
    \/ \E c \in Calls, f \in ConcFailures : RemoteFails(c, f)
    \/ \E c \in Calls, txt \in ConcContents : RemoteResponds(c, txt)
    \/ \E c \in Calls : TimerFires(c)

SpecConc == Init /\ [][NextConc]_vars

(***************************************************************************)
(* One generate call per slot from its start to its end, the calls         *)
(* overlapping, with failures that are retried and failures that are not;  *)
(* SpecLive adds that a request in flight is answered and that a timer     *)
(* that was set fires                                                      *)
(***************************************************************************)
OnceRequests == {<<Ohm, ExplainSimply>>, <<OhmLower, FollowUp>>}
OnceContents == {TextPlain, Null}
OnceFailures == {Failure(429, MsgRate), Failure(401, MsgApiKey)}

\* the remote request of the call c in flight settles, one way or the other
Responds(c) ==
    \/ \E f \in OnceFailures : RemoteFails(c, f)
    \/ \E txt \in OnceContents : RemoteResponds(c, txt)

NextOnce ==
    \/ \E c \in Calls, r \in OnceRequests :
           pc[c] = "idle" /\ Generate(c, r[1], r[2])
    \/ \E c \in Calls : Responds(c)
    \/ \E c \in Calls : TimerFires(c)

SpecOnce == Init /\ [][NextOnce]_vars

\* the same calls, all for one key
LiveRequests == {<<Ohm, ExplainSimply>>}

NextLive ==
    \/ \E c \in Calls, r \in LiveRequests :
           pc[c] = "idle" /\ Generate(c, r[1], r[2])
    \/ \E c \in Calls : Responds(c)
    \/ \E c \in Calls : TimerFires(c)

SpecLive ==
    /\ Init
    /\ [][NextLive]_vars
    /\ \A c \in Calls : WF_vars(Responds(c)) /\ WF_vars(TimerFires(c))

\* Key derivation: a caller that makes NumCalls calls one after the other,
\* for topics that differ in case, in white space and in colons, with
\* ContentService.key or with getCacheKey; the clock stands still
KeyCopies == {MockData, GenerateContent}
KeyTopics ==
    {<<"a">>, <<"A">>, <<"a", " ">>, <<" ", "a">>, <<"a", ":">>,
     <<"a", ":", ":">>}
KeyKinds == {ExplainSimply, FollowUp, FollowUpAnswer}
KeyContents == {TextPlain, TextMixed}

InitKey == \E i \in KeyCopies : InitOf(i)

NextKey ==
    \/ \E c \in Calls, t \in KeyTopics, k \in KeyKinds :
           /\ pc[c] = "idle"
           /\ \A b \in Calls : b < c => pc[b] \in Settled
           /\ Generate(c, t, k)
    \/ \E c \in Calls, txt \in KeyContents : RemoteResponds(c, txt)

SpecKey == InitKey /\ [][NextKey]_vars

\* The ContentResult variant: a caller that makes NumCalls calls for one key,
\* one after the other, answered by texts of at most MaxPieces pieces with
\* and without the marker, and by a text with six items under the marker
QuickPieces == {QuickReferenceMarker, <<"\n">>, <<"-">>, <<"a">>}

TextSixItems ==
    <<"#">> \o QuickReferenceMarker
    \o <<"\n", "-", " ", "a", "\n", " ", "-", "a", "\n", Bullet, " ", " ", "a">>
    \o <<"\n", "a", "\n", Bullet, "\n", "-", "-", "\n", "-", "a", " ", "\n">>

QuickTexts ==
    {Flatten(ps) : ps \in UNION {[1..n -> QuickPieces] : n \in 0..MaxPieces}}
    \cup {TextSixItems}

QuickRequests == {<<Ohm, ExplainSimply>>}

NextQuick ==
    \/ \E c \in Calls, r \in QuickRequests :
           /\ pc[c] = "idle"
           /\ \A b \in Calls : b < c => pc[b] \in Settled
           /\ Generate(c, r[1], r[2])
    \/ \E c \in Calls, txt \in QuickTexts : RemoteResponds(c, txt)

SpecQuick == InitOf(AiService) /\ [][NextQuick]_vars

(***************************************************************************)
(* SubjectPage (pages/ChaptersPage.tsx): the handlers of the page, each     *)
(* call of a handler awaiting generateContent of services/aiService.ts in   *)
(* the slot of its own number.  A handler runs up to its next await in one  *)
(* step; it reads selectedTopic from the render in which it was called.     *)
(***************************************************************************)
HandlerAwaits ==
    {"handleGenerateContent", "handleSelectFollowUp",
     "generateFollowUpQuestions"}

\* the call h of a handler awaits a generateContent that has settled: its
\* continuation is a microtask and runs before any other event
Pending(h) == handler[h] \in HandlerAwaits /\ pc[h] \in Settled
NonePending == \A h \in Calls : ~Pending(h)

\* JSON.parse(s) is an array, so that questions.map does not throw
ParsesAsArray(s) ==
    JsonValid(s) /\ SkipWs(s, 1) <= Len(s) /\ s[SkipWs(s, 1)] = "["

\* the positions at which the elements of an array start, i being the
\* position of the first character of an element
RECURSIVE ElementStarts(_, _)
ElementStarts(s, i) ==
    LET k == SkipWs(s, ParseValue(s, i))
    IN  IF s[k] = "," THEN <<i>> \o ElementStarts(s, SkipWs(s, k + 1))
        ELSE <<i>>

\* the positions of the elements of JSON.parse(s) for a text s that parses
\* as an array
ArrayElements(s) ==
    LET j == SkipWs(s, SkipWs(s, 1) + 1)
    IN  IF s[j] = "]" THEN <<>> ELSE ElementStarts(s, j)

\* the string a string literal stands for, cs being the characters between
\* its quotes; \u and four hexadecimal digits stand for one code unit
RECURSIVE Unescape(_)
Unescape(cs) ==
    IF cs = <<>> THEN <<>>
    ELSE IF Head(cs) = "\\" /\ Len(cs) >= 6 /\ cs[2] = "u"
         THEN <<CodeUnit(4096 * HexValue(cs[3]) + 256 * HexValue(cs[4])
                         + 16 * HexValue(cs[5]) + HexValue(cs[6]))>>
              \o Unescape(SubSeq(cs, 7, Len(cs)))
    ELSE IF Head(cs) = "\\" /\ Len(cs) >= 2 /\ cs[2] # "u"
         THEN <<CASE cs[2] = "n" -> "\n"
                  [] cs[2] = "t" -> "\t"
                  [] cs[2] = "r" -> "\r"
                  [] cs[2] = "f" -> "\f"
                  [] cs[2] = "b" -> "<backspace>"
                  [] OTHER -> cs[2]>>
              \o Unescape(SubSeq(cs, 3, Len(cs)))
         ELSE <<Head(cs)>> \o Unescape(Tail(cs))

\* the value of the property question among the members of an object from
\* the member at position i on, acc being the value found before i: a
\* string for a string, the text of the value after the mark "<value>" for
\* any other value; the last member of that name wins
RECURSIVE MemberQuestion(_, _, _)
MemberQuestion(s, i, acc) ==
    LET n    == ParseChars(s, i + 1)
        name == Unescape(SubSeq(s, i + 1, n - 2))
        vs   == SkipWs(s, SkipWs(s, n) + 1)
        ve   == ParseValue(s, vs)
        val  == IF s[vs] = "\"" THEN Unescape(SubSeq(s, vs + 1, ve - 2))
                ELSE <<"<value>">> \o SubSeq(s, vs, ve - 1)
        new  == IF name = <<"q", "u", "e", "s", "t", "i", "o", "n">> THEN val
                ELSE acc
        k    == SkipWs(s, ve)
    IN  IF s[k] = "," THEN MemberQuestion(s, SkipWs(s, k + 1), new) ELSE new

\* q.question for the element q of the array that starts at position i:
\* undefined (Null) unless q is an object with that property
ElementQuestion(s, i) ==
    IF s[i] # "{" THEN Null
    ELSE LET j == SkipWs(s, i + 1)
         IN  IF s[j] = "}" THEN Null ELSE MemberQuestion(s, j, Null)

\* questions.map(...): one question per item, each with the topic id the
\* handler has captured and the property question of the item
Questions(s, t) ==
    LET es == ArrayElements(s)
    IN  [i \in 1..Len(es) |->
            [topicId |-> t.id, question |-> ElementQuestion(s, es[i])]]

\* handleSelectTopic(topic)
HandleSelectTopic(t) ==
    /\ NonePending
    /\ selectedTopic' = t
    /\ content' = NoContent
    /\ error' = NoError
    /\ UNCHANGED <<followUpQuestions, isGeneratingContent, handler, closure,
                   question>>
    /\ UNCHANGED <<impl, now, store, pc, topic, type, found, lookedAt, cached,
                   attemptNumber, remoteCalls, delays, errs, userPrompt, raw,
                   result, quickReference, thrown>>

\* handleGenerateContent(promptType) up to its first await
HandleGenerateContent(h, promptType) ==
    /\ NonePending
    /\ handler[h] = "idle"
    /\ selectedTopic # NoTopic
    /\ isGeneratingContent' = TRUE
    /\ error' = NoError
    /\ handler' = [handler EXCEPT ![h] = "handleGenerateContent"]
    /\ closure' = [closure EXCEPT ![h] = selectedTopic]
    /\ GenerateCall(h, selectedTopic.title, promptType)
    /\ UNCHANGED <<selectedTopic, content, followUpQuestions, question>>

\* handleSelectFollowUp(followUpQuestions[q]) up to its first await; the
\* questions are on the page only while content is shown and nothing is
\* generating
HandleSelectFollowUp(h, q) ==
    /\ NonePending
    /\ handler[h] = "idle"
    /\ content # NoContent /\ ~isGeneratingContent
    /\ q \in 1..Len(followUpQuestions)
    /\ question' = [question EXCEPT ![h] = followUpQuestions[q]]
    /\ selectedTopic # NoTopic
    /\ isGeneratingContent' = TRUE
    /\ error' = NoError
    /\ handler' = [handler EXCEPT ![h] = "handleSelectFollowUp"]
    /\ closure' = [closure EXCEPT ![h] = selectedTopic]
    /\ GenerateCall(h, selectedTopic.title, FollowUpAnswer)
    /\ UNCHANGED <<selectedTopic, content, followUpQuestions>>

\* variant of MainSettles: a failure of the main generation is not shown
MainSettlesSilently(h) ==
    /\ handler[h] \in {"handleGenerateContent", "handleSelectFollowUp"}
    /\ pc[h] \in Settled
    /\ IF pc[h] = "returned"
       THEN /\ content' = [topicId |-> closure[h].id,
                           title |-> IF handler[h] = "handleSelectFollowUp"
                                     THEN question[h].question
                                     ELSE closure[h].title,
                           content |-> result[h]]
            /\ handler' = [handler EXCEPT ![h] = "generateFollowUpQuestions"]
            /\ GenerateCall(h, closure[h].title, FollowUp)
            /\ UNCHANGED <<selectedTopic, followUpQuestions,
                           isGeneratingContent, error, closure, question>>
       ELSE /\ content' = IF handler[h] = "handleGenerateContent" THEN NoContent
                          ELSE content
            /\ error' = error
            /\ isGeneratingContent' = FALSE
            /\ handler' = [handler EXCEPT ![h] = "done"]
            /\ UNCHANGED <<selectedTopic, followUpQuestions, closure,
                           question>>
            /\ UNCHANGED <<impl, now, store, pc, topic, type, found, lookedAt,
                           cached, attemptNumber, remoteCalls, delays, errs,
                           userPrompt, raw, result, quickReference, thrown>>

\* the rest of the try block of handleGenerateContent and handleSelectFollowUp
\* once the awaited generateContent has settled, up to the await inside
\* generateFollowUpQuestions, or its catch and finally blocks
MainSettles(h) ==
    /\ handler[h] \in {"handleGenerateContent", "handleSelectFollowUp"}
    /\ pc[h] \in Settled
    /\ IF pc[h] = "returned"
       THEN /\ content' = [topicId |-> closure[h].id,
                           title |-> IF handler[h] = "handleSelectFollowUp"
                                     THEN question[h].question
                                     ELSE closure[h].title,
                           content |-> result[h]]
            /\ handler' = [handler EXCEPT ![h] = "generateFollowUpQuestions"]
            /\ GenerateCall(h, closure[h].title, FollowUp)
            /\ UNCHANGED <<selectedTopic, followUpQuestions,
                           isGeneratingContent, error, closure, question>>
       ELSE /\ content' = IF handler[h] = "handleGenerateContent" THEN NoContent
                          ELSE content
            /\ error' = thrown[h]
            /\ isGeneratingContent' = FALSE
            /\ handler' = [handler EXCEPT ![h] = "done"]
            /\ UNCHANGED <<selectedTopic, followUpQuestions, closure,
                           question>>
            /\ UNCHANGED <<impl, now, store, pc, topic, type, found, lookedAt,
                           cached, attemptNumber, remoteCalls, delays, errs,
                           userPrompt, raw, result, quickReference, thrown>>

\* the rest of generateFollowUpQuestions once its generateContent has
\* settled, and then the finally block of the handler that awaits it
FollowUpSettles(h) ==
    /\ handler[h] = "generateFollowUpQuestions"
    /\ pc[h] \in Settled
    /\ followUpQuestions' =
           IF pc[h] = "returned" /\ ParsesAsArray(result[h])
           THEN Questions(result[h], closure[h])
           ELSE <<>>
    /\ isGeneratingContent' = FALSE
    /\ handler' = [handler EXCEPT ![h] = "done"]
    /\ UNCHANGED <<selectedTopic, content, error, closure, question>>
    /\ UNCHANGED <<impl, now, store, pc, topic, type, found, lookedAt, cached,
                   attemptNumber, remoteCalls, delays, errs, userPrompt, raw,
                   result, quickReference, thrown>>

\* SpecPage: NumCalls calls of the handlers over two topics; an explanation
\* is answered by a plain text, a follow-up request by a plain text, an
\* array of one number, an array of one question or a number, and either by
\* a failure; the text of the question writes the q of the member name and
\* the question mark as \u escapes
PageTopics == {[id |-> "t1", title |-> Ohm], [id |-> "t2", title |-> OhmLower]}
PagePromptTypes == {ExplainSimply}
TextArray == <<"[", "1", "]">>
TextQuestions ==
    <<"[", "{", "\"", "\\", "u", "0", "0", "7", "1", "u", "e", "s", "t", "i",
      "o", "n", "\"", ":", "\"", "W", "h", "y", "\\", "u", "0", "0", "3", "F",
      "\"", "}", "]">>
PageContents(k) ==
    IF k = FollowUp THEN {TextPlain, TextArray, TextQuestions, <<"1">>}
    ELSE {TextPlain}
PageFailures == {Failure(401, MsgApiKey)}

NextPage ==
    \/ \E t \in PageTopics : HandleSelectTopic(t)
    \/ \E h \in Calls, k \in PagePromptTypes : HandleGenerateContent(h, k)
    \/ \E h \in Calls, q \in DOMAIN followUpQuestions :
           HandleSelectFollowUp(h, q)
    \/ \E h \in Calls :
           \E txt \in PageContents(type[h]) :
               NonePending /\ RemoteResponds(h, txt)
    \/ \E h \in Calls, f \in PageFailures : NonePending /\ RemoteFails(h, f)
    \/ \E h \in Calls : MainSettles(h)
    \/ \E h \in Calls : FollowUpSettles(h)

SpecPage == InitOf(GenerateContent) /\ [][NextPage]_vars

(***************************************************************************)
(* Properties                                                              *)
(***************************************************************************)
\* the entry of key k is in the store and not older than the TTL
Fresh(k) == k \in DOMAIN store /\ now - store[k].timestamp <= ttlMs
\* the key of the call c
KeyOf(c) == key(topic[c], type[c])
\* the last failure the call c met
LastErr(c) == errs[c][Len(errs[c])]
\* every attempt of the call c so far failed with status 429
All429(c) ==
    /\ Len(errs[c]) >= 1
    /\ \A i \in 1..Len(errs[c]) : errs[c][i].status = 429

\* C1: a generate for a key that an earlier generate filled less than one TTL
\* ago (the entry is in the store and at most one TTL old) makes no remote
\* call and returns exactly the string stored, which the first call returned
C1_RepeatWithinTtlIsServedFromCache ==
    [][\A r \in Requests :
         (Generate(Caller, r[1], r[2]) /\ Fresh(key(r[1], r[2])))
         => /\ pc'[Caller] = "returned"
            /\ remoteCalls'[Caller] = 0
            /\ result'[Caller] = store[key(r[1], r[2])].content]_vars

\* C2: in every reachable state, no remote call is under way for a key whose
\* entry is in the store and within its TTL: a generate in that window
\* observes the cached value and triggers no second remote call
C2_NoRemoteCallWhileCached ==
    \A c \in Calls :
        pc[c] \in {"fetching", "delaying"} => ~Fresh(KeyOf(c))

\* C3: a generate that finds the entry of its key older than the TTL does not
\* return it: the entry is dropped and a remote call is issued, and when that
\* call succeeds the entry is stored again, stamped with the time of storing
C3_ExpiredEntryIsFetchedAgain ==
    /\ [][\A r \in Requests :
            LET k == key(r[1], r[2])
            IN  (Generate(Caller, r[1], r[2]) /\ k \in DOMAIN store
                   /\ now - store[k].timestamp > ttlMs)
                => /\ pc'[Caller] = "fetching"
                   /\ remoteCalls'[Caller] = 1
                   /\ result'[Caller] = Null
                   /\ k \notin DOMAIN store']_vars
    /\ [][\A txt \in Contents \ {<<>>, Null} :
            RemoteResponds(Caller, txt)
            => /\ store'[KeyOf(Caller)].content = result'[Caller]
               /\ store'[KeyOf(Caller)].timestamp = now]_vars

\* a call that found a stale entry, fetched again and stored the new text
C3_Witness ==
    /\ pc[Caller] = "returned"
    /\ found[Caller] # NoEntry
    /\ lookedAt[Caller] - found[Caller].timestamp > ttlMs
    /\ remoteCalls[Caller] = 1
    /\ KeyOf(Caller) \in DOMAIN store
    /\ store[KeyOf(Caller)].timestamp > found[Caller].timestamp + ttlMs

\* C4: the lookup returns the stored value exactly when the key has an entry
\* whose age is at most the TTL, and leaves the store as it is; otherwise it
\* returns nothing and the key has no entry afterwards
C4_GetReturnsExactlyTheFreshEntry ==
    [][\A r \in Requests :
         LET k == key(r[1], r[2])
         IN  Generate(Caller, r[1], r[2])
             => IF k \in DOMAIN store /\ now - store[k].timestamp <= ttlMs
                THEN cached'[Caller] = store[k].content /\ store' = store
                ELSE /\ cached'[Caller] = Null
                     /\ k \notin DOMAIN store'
                     /\ \A x \in DOMAIN store \ {k} :
                          x \in DOMAIN store' /\ store'[x] = store[x]]_vars

\* a lookup that found an entry exactly one TTL old and returned its value
C4_Witness ==
    /\ pc[Caller] = "returned"
    /\ found[Caller] # NoEntry
    /\ lookedAt[Caller] - found[Caller].timestamp = ttlMs
    /\ cached[Caller] = found[Caller].content
    /\ remoteCalls[Caller] = 0

\* C5 as stated: a call whose attempts all failed with status 429 has made
\* exactly 5 remote calls and fails with the RateLimited message
C5_Always429EndsRateLimited ==
    \A c \in Calls :
        (pc[c] = "failed" /\ All429(c))
        => remoteCalls[c] = 5 /\ thrown[c] = Errors.rateLimit

\* C5 amended: a call whose attempts all failed with status 429 has made
\* exactly 5 remote calls, and fails with the RateLimited message unless the
\* message of the last failure contains 'API key', when it fails with the
\* InvalidCredential message
C5_Always429MakesFiveCalls ==
    \A c \in Calls :
        (pc[c] = "failed" /\ All429(c))
        => /\ remoteCalls[c] = 5
           /\ Len(errs[c]) = 5
           /\ thrown[c] = IF Includes(LastErr(c).message, ApiKeyText)
                          THEN Errors.invalidKey
                          ELSE Errors.rateLimit

\* five attempts failed with 429 and the call failed with RateLimited
C5_Witness ==
    /\ pc[Caller] = "failed"
    /\ All429(Caller)
    /\ remoteCalls[Caller] = 5
    /\ thrown[Caller] = Errors.rateLimit

\* C6: after the failure of attempt k another attempt is scheduled exactly
\* when the status is one of 408, 429, 500, 502, 503, 504 and k < 5; any
\* other failure ends the call at attempt k with no delay and no further
\* remote call, so a call whose first attempt failed with 400 made one call
C6_RetryExactlyOnRetryableBelowLimit ==
    /\ [][\A f \in RetryFailures :
            RemoteFails(Caller, f)
            => IF f.status \in {408, 429, 500, 502, 503, 504}
                    /\ remoteCalls[Caller] < 5
               THEN /\ pc'[Caller] = "delaying"
                    /\ Len(delays'[Caller]) = Len(delays[Caller]) + 1
               ELSE /\ pc'[Caller] = "failed"
                    /\ delays'[Caller] = delays[Caller]
                    /\ remoteCalls'[Caller] = remoteCalls[Caller]]_vars
    /\ [](\A c \in Calls :
            /\ pc[c] = "failed" => remoteCalls[c] = Len(errs[c])
            /\ (pc[c] = "failed" /\ errs[c][1].status = 400)
               => remoteCalls[c] = 1 /\ delays[c] = <<>>)

\* a call that failed at its first attempt with status 400
C6_Witness ==
    /\ pc[Caller] = "failed"
    /\ errs[Caller] = <<Failure(400, MsgPlain)>>
    /\ remoteCalls[Caller] = 1
    /\ delays[Caller] = <<>>

\* C7: the delays a call has set are 2000, 4000, 8000, 16000 in this order,
\* one before each attempt but the first: they never decrease, none exceeds
\* 20000 and the first is the base delay
C7_DelaysDoubleFromBase ==
    \A c \in Calls :
        /\ Len(delays[c]) <= 4
        /\ delays[c] = SubSeq(<<2000, 4000, 8000, 16000>>, 1, Len(delays[c]))
        /\ \A i \in 1..Len(delays[c]) : delays[c][i] <= 20000
        /\ pc[c] \in {"fetching", "failed"} /\ remoteCalls[c] >= 1
           => Len(delays[c]) = remoteCalls[c] - 1
        /\ pc[c] = "delaying" => Len(delays[c]) = remoteCalls[c]

\* a call that used up its five attempts
C7_Witness ==
    /\ pc[Caller] = "failed"
    /\ remoteCalls[Caller] = 5
    /\ delays[Caller] = <<2000, 4000, 8000, 16000>>

\* C8: the message a failed call rejects with is the classification of the
\* failure of its last attempt, whatever the earlier attempts failed with
C8_LastFailureIsSurfaced ==
    \A c \in Calls :
        pc[c] = "failed" => thrown[c] = formatError(LastErr(c))

\* 500, 500, 500, 500, 429: the call fails with RateLimited, not Generic
C8_Witness ==
    /\ pc[Caller] = "failed"
    /\ Len(errs[Caller]) = 5
    /\ \A i \in 1..4 : errs[Caller][i] = Failure(500, MsgPlain)
    /\ errs[Caller][5] = Failure(429, MsgRate)
    /\ thrown[Caller] = Errors.rateLimit

\* C9: a response without content, or with the empty string as content, ends
\* the call at once: it fails with the Generic message, no delay is set, no
\* further request is sent and the cache is not written
C9_NoContentFailsWithoutRetry ==
    [][\A txt \in {<<>>, Null} :
         RemoteResponds(Caller, txt)
         => /\ pc'[Caller] = "failed"
            /\ thrown'[Caller] = Errors.generic
            /\ store' = store
            /\ delays'[Caller] = delays[Caller]
            /\ remoteCalls'[Caller] = remoteCalls[Caller]]_vars

\* a call whose second attempt got a response without content
C9_Witness ==
    /\ pc[Caller] = "failed"
    /\ Len(errs[Caller]) = 2
    /\ LastErr(Caller) = NoContentError
    /\ thrown[Caller] = Errors.generic
    /\ KeyOf(Caller) \notin DOMAIN store

\* C10: a failed call rejects with one of the four fixed messages, the first
\* that matches its last failure: 'API key' in the message, then status 429,
\* then 'quota' in the message, then the generic one
C10_FirstMatchingMessage ==
    \A c \in Calls :
        pc[c] = "failed"
        => LET e == LastErr(c)
               hasKey == Includes(e.message, ApiKeyText)
               hasQuota == Includes(e.message, QuotaText)
           IN  /\ thrown[c] \in {Errors.invalidKey, Errors.rateLimit,
                                 Errors.quotaExceeded, Errors.generic}
               /\ hasKey => thrown[c] = Errors.invalidKey
               /\ (~hasKey /\ e.status = 429) => thrown[c] = Errors.rateLimit
               /\ (~hasKey /\ e.status # 429 /\ hasQuota)
                  => thrown[c] = Errors.quotaExceeded
               /\ (~hasKey /\ e.status # 429 /\ ~hasQuota)
                  => thrown[c] = Errors.generic

\* a call whose last failure is a 429 that mentions the API key
C10_Witness ==
    /\ pc[Caller] = "failed"
    /\ LastErr(Caller) = Failure(429, MsgApiKey)
    /\ thrown[Caller] = Errors.invalidKey

\* a text that JSON.parse turns into an array
IsJsonArray(s) ==
    JsonValid(s) /\ SkipWs(s, 1) <= Len(s) /\ s[SkipWs(s, 1)] = "["

\* the response once its fenced blocks are stripped has no text between a
\* first [ and a last ], or that text does not parse
NoArrayIn(text) ==
    LET out   == StripFences(text)
        start == IndexOf(out, <<"[">>)
        end   == LastIndexOf(out, <<"]">>) + 1
    IN  start < 0 \/ end <= start \/ ~JsonValid(Slice(out, start, end))

\* C11: whatever text the remote call resolves with, a follow-up request
\* returns a text that parses as a JSON array, and returns [] when the
\* response holds no bracketed text that parses.  The copy of the service in
\* unnamed/part_003 returns the response 1 as it is.
C11_FollowUpAlwaysYieldsArray ==
    \A c \in Calls :
        (impl \in {MockData, Part003} /\ type[c] = FollowUp /\ raw[c] # Null) =>
            /\ pc[c] = "returned"
            /\ IsJsonArray(result[c])
            /\ NoArrayIn(raw[c]) => result[c] = EmptyArray

\* the call c went past a cache miss and its remote call resolved
Fetched(c) == pc[c] = "returned" /\ cached[c] = Null /\ raw[c] # Null

\* C12: requests for the same key that overlap are not merged: each one that
\* missed makes its own remote calls, and when a call stores after another
\* call for the same key has stored, the entry becomes the later call's
\* value, while the earlier call keeps the value it returned.
C12_LastWriterWins ==
    /\ [][\A c \in Calls :
             (pc[c] \in {"idle"} \cup Settled /\ pc'[c] = "fetching") =>
                 remoteCalls'[c] = 1]_vars
    /\ [][\A c \in Calls, d \in Calls, txt \in ConcContents :
             (/\ c # d
              /\ Fetched(d)
              /\ KeyOf(c) = KeyOf(d)
              /\ RemoteResponds(c, txt)) =>
                 /\ store'[KeyOf(c)] =
                        [content |-> sanitize(txt, type[c]), timestamp |-> now]
                 /\ result'[c] = sanitize(txt, type[c])
                 /\ result'[d] = result[d]]_vars

\* both calls missed on the same key at the same clock value, so that they
\* were in flight together; they got different texts, and the entry is the
\* text of the second slot
C12_Witness ==
    \E c \in Calls, d \in Calls :
        /\ c < d
        /\ KeyOf(c) = KeyOf(d)
        /\ Fetched(c) /\ Fetched(d)
        /\ remoteCalls[c] >= 1 /\ remoteCalls[d] >= 1
        /\ lookedAt[c] = now /\ lookedAt[d] = now
        /\ result[c] # result[d]
        /\ store[KeyOf(d)].content = result[d]

\* the template of the kind k with the topic t in the place of the
\* placeholder, character for character
Rendered(t, k) ==
    SubSeq(promptTemplates(impl, k), 1, 1) \o t
    \o SubSeq(promptTemplates(impl, k), 2 + Len(Placeholder),
              Len(promptTemplates(impl, k)))

\* C13: on a miss the user prompt is the template of the kind with the
\* placeholder replaced by the topic as it is, and nothing else changed.
\* The topic is passed to replace as a replacement pattern, so a topic
\* such as $& is not inserted as it is.
C13_TopicIsInsertedLiterally ==
    \A c \in Calls :
        pc[c] = "fetching" =>
            userPrompt[c] = Rendered(topic[c], type[c])

\* C14: the clean-up is idempotent: cleaning the text a call returned once
\* more, for the same kind, gives the same text.
C14_SanitizeIsIdempotent ==
    \A c \in Calls :
        (pc[c] = "returned" /\ raw[c] # Null) =>
            Sanitized(impl, result[c], type[c]) = result[c]

\* a response of seven backquotes, cleaned for a kind other than follow-up:
\* the first six are a fenced block, the seventh is left
C14_Witness ==
    /\ impl = MockData
    /\ pc[Caller] = "returned"
    /\ type[Caller] = ExplainSimply
    /\ raw[Caller] = <<BackQuote>> \o Fence \o Fence
    /\ result[Caller] = <<BackQuote>>
    /\ sanitize(result[Caller], ExplainSimply) = result[Caller]

\* the lookup of the call c found an entry that had not expired
Hit(c) == found[c] # NoEntry /\ ~Stale(found[c], lookedAt[c])

\* C15: a generate call makes at most 5 remote calls, none when its lookup
\* hit, and none once one of its attempts has succeeded.  A call whose
\* lookup finds the stored text '' makes remote calls all the same.
C15_AttemptBound ==
    /\ [](\A c \in Calls :
             /\ remoteCalls[c] <= numOfAttempts
             /\ Hit(c) => remoteCalls[c] = 0)
    /\ [][\A c \in Calls :
             (pc[c] = "returned" /\ pc'[c] = "returned") =>
                 remoteCalls'[c] <= remoteCalls[c]]_vars

\* C16: when the attempts before attempt k failed with retryable statuses
\* and attempt k resolves with a text, the call returns the cleaned text of
\* attempt k and stores it, and nothing is thrown: the earlier failures are
\* not surfaced.
C16_TransientFailuresAreMasked ==
    [][\A txt \in Contents :
          (/\ HasContent(txt)
           /\ \A i \in 1..Len(errs[Caller]) : isRetryable(errs[Caller][i])
           /\ RemoteResponds(Caller, txt)) =>
              /\ pc'[Caller] = "returned"
              /\ result'[Caller] = sanitize(txt, type[Caller])
              /\ store'[KeyOf(Caller)] =
                     [content |-> sanitize(txt, type[Caller]), timestamp |-> now]
              /\ thrown'[Caller] = NotThrown
              /\ remoteCalls'[Caller] = Len(errs[Caller]) + 1
              /\ remoteCalls'[Caller] <= numOfAttempts]_vars

\* four attempts failed with 429 and the fifth resolved with an array and
\* a fenced block after it: the array is returned and stored, nothing is
\* thrown
C16_Witness ==
    /\ pc[Caller] = "returned"
    /\ Len(errs[Caller]) = 4
    /\ \A i \in 1..4 : errs[Caller][i].status = 429
    /\ remoteCalls[Caller] = 5
    /\ raw[Caller] = TextMixed
    /\ result[Caller] = <<"[", "1", "]">>
    /\ store[KeyOf(Caller)].content = result[Caller]
    /\ thrown[Caller] = NotThrown

\* the keys of the requests, and the entry a store holds for a key
Keys == {key(r[1], r[2]) : r \in Requests}
EntryOf(st, k) == IF k \in DOMAIN st THEN st[k] ELSE NoEntry

\* C17: the entry of a key appears or changes only in the step in which a
\* call for that key receives a text, and it becomes the cleaned text that
\* call returns; it disappears only in the lookup of a call for that key
\* that finds it older than the TTL.  So a call that fails leaves every
\* entry as it was, but for a stale entry of its own key.
C17_OnlySuccessWrites ==
    /\ [][\A k \in Keys :
             EntryOf(store', k) # EntryOf(store, k) =>
                 \/ \E c \in Calls, txt \in Contents :
                        /\ HasContent(txt)
                        /\ RemoteResponds(c, txt)
                        /\ k = KeyOf(c)
                        /\ store'[k] = [content   |-> sanitize(txt, type[c]),
                                        timestamp |-> now]
                        /\ result'[c] = store'[k].content
                 \/ \E c \in Calls :
                        /\ pc[c] \in {"idle"} \cup Settled
                        /\ pc'[c] = "fetching"
                        /\ k = key(topic'[c], type'[c])
                        /\ k \in DOMAIN store
                        /\ k \notin DOMAIN store'
                        /\ now - store[k].timestamp > ttlMs]_vars
    /\ [](\A c \in Calls :
             pc[c] = "failed" =>
                 EntryOf(store, KeyOf(c)) =
                     IF Hit(c) THEN found[c] ELSE NoEntry)

\* a call that failed after its lookup evicted the stale entry of its key,
\* while the entry of the other key, as old, is still stored
C17_Witness ==
    /\ pc[Caller] = "failed"
    /\ found[Caller] # NoEntry
    /\ ~Hit(Caller)
    /\ KeyOf(Caller) \notin DOMAIN store
    /\ \E k \in Keys \ {KeyOf(Caller)} :
           k \in DOMAIN store /\ now - store[k].timestamp > ttlMs

\* C18: a call whose lookup hits is read-only: it makes no remote call,
\* cleans nothing, writes nothing, and leaves the time of creation of the
\* entry as it was, so that hits do not postpone the expiry.  A call whose
\* lookup finds the stored text '' fetches and stores again, which renews
\* the time of creation.
C18_HitIsReadOnly ==
    [][\A c \in Calls, r \in Requests :
          (/\ Generate(c, r[1], r[2])
           /\ key(r[1], r[2]) \in DOMAIN store
           /\ now - store[key(r[1], r[2])].timestamp <= ttlMs) =>
              /\ pc'[c] = "returned"
              /\ result'[c] = store[key(r[1], r[2])].content
              /\ remoteCalls'[c] = 0
              /\ raw'[c] = Null
              /\ store' = store]_vars

\* C19: the fallback of a follow-up request is cached like any result: when
\* the response holds no bracketed text that parses, the call returns []
\* and stores it, and a later request for the key within the TTL returns []
\* from the cache, with no remote call.
C19_FallbackIsCached ==
    /\ [][\A txt \in Contents :
             (/\ type[Caller] = FollowUp
              /\ HasContent(txt)
              /\ NoArrayIn(txt)
              /\ RemoteResponds(Caller, txt)) =>
                 /\ result'[Caller] = EmptyArray
                 /\ store'[KeyOf(Caller)] =
                        [content |-> EmptyArray, timestamp |-> now]]_vars
    /\ [][\A r \in Requests :
             (/\ r[2] = FollowUp
              /\ key(r[1], r[2]) \in DOMAIN store
              /\ store[key(r[1], r[2])].content = EmptyArray
              /\ now - store[key(r[1], r[2])].timestamp <= ttlMs
              /\ Generate(Caller, r[1], r[2])) =>
                 /\ pc'[Caller] = "returned"
                 /\ result'[Caller] = EmptyArray
                 /\ remoteCalls'[Caller] = 0
                 /\ store' = store]_vars

\* a follow-up request served [] from the entry an earlier request stored
\* exactly one TTL before
C19_Witness ==
    /\ pc[Caller] = "returned"
    /\ type[Caller] = FollowUp
    /\ found[Caller] = [content |-> EmptyArray, timestamp |-> 0]
    /\ lookedAt[Caller] = ttlMs
    /\ result[Caller] = EmptyArray
    /\ remoteCalls[Caller] = 0
    /\ store[KeyOf(Caller)] = found[Caller]

\* the call c is between its lookup and its end
InFlight(c) == pc[c] \in {"fetching", "delaying"}
\* what the model keeps for the call c
CallState(c) ==
    <<pc[c], topic[c], type[c], found[c], lookedAt[c], cached[c],
      attemptNumber[c], remoteCalls[c], delays[c], errs[c], userPrompt[c],
      raw[c], result[c], thrown[c]>>
ConcKeys == {key(r[1], r[2]) : r \in ConcRequests}

\* C20: calls in flight for different keys do not affect each other: each
\* has its own five attempts, what a call returns or throws is determined
\* by its own remote outcomes, a step of a call changes no other call and
\* no entry of another key, and whichever of two calls in flight has a
\* request outstanding can be the next to end.
C20_DifferentKeysAreIndependent ==
    /\ [](\A c \in Calls :
             /\ remoteCalls[c] <= numOfAttempts
             /\ InFlight(c) =>
                    remoteCalls[c] =
                        Len(errs[c]) + (IF pc[c] = "fetching" THEN 1 ELSE 0)
             /\ Fetched(c) => result[c] = sanitize(raw[c], type[c])
             /\ pc[c] = "failed" => thrown[c] = formatError(LastErr(c)))
    /\ [](\A c \in Calls, d \in Calls :
             (/\ c < d
              /\ KeyOf(c) # KeyOf(d)
              /\ pc[c] = "fetching" /\ pc[d] = "fetching") =>
                 /\ ENABLED RemoteResponds(c, TextPlain)
                 /\ ENABLED RemoteResponds(d, TextPlain))
    /\ [][\A c \in Calls :
             CallState(c)' # CallState(c) =>
                 /\ \A d \in Calls \ {c} : CallState(d)' = CallState(d)
                 /\ \A k \in ConcKeys \ {key(topic'[c], type'[c])} :
                        EntryOf(store', k) = EntryOf(store, k)]_vars

\* two calls for different keys missed, used four retries each and got
\* different texts; each returned its own text and both entries are stored
C20_Witness ==
    \E c \in Calls, d \in Calls :
        /\ c < d
        /\ KeyOf(c) # KeyOf(d)
        /\ Fetched(c) /\ Fetched(d)
        /\ remoteCalls[c] = numOfAttempts /\ remoteCalls[d] = numOfAttempts
        /\ raw[c] = TextMixed /\ raw[d] = TextPlain
        /\ store[KeyOf(c)].content = result[c]
        /\ store[KeyOf(d)].content = result[d]

\* C21: a call goes from idle through the lookup either straight to its
\* return, which happens only when the lookup hit and without a remote call,
\* or to fetching; from fetching it is retried at most 4 times and ends
\* either returned, in the step that cleans the response and stores the
\* cleaned text, or failed; the store is written in no other step, no remote
\* call is made by a call that has not looked up, and a call that has ended
\* does nothing more.
C21_StateOrder ==
    /\ [][\A c \in Calls :
             pc'[c] # pc[c] =>
                 \/ /\ pc[c] = "idle" /\ pc'[c] = "returned"
                    /\ Hit(c)' /\ remoteCalls'[c] = 0
                    /\ result'[c] = found'[c].content
                    /\ store' = store
                 \/ /\ pc[c] = "idle" /\ pc'[c] = "fetching"
                    /\ remoteCalls[c] = 0 /\ remoteCalls'[c] = 1
                    /\ store' = store
                 \/ /\ pc[c] = "fetching" /\ pc'[c] = "delaying"
                    /\ Len(delays'[c]) = Len(delays[c]) + 1
                    /\ Len(delays'[c]) <= numOfAttempts - 1
                    /\ store' = store
                 \/ /\ pc[c] = "delaying" /\ pc'[c] = "fetching"
                    /\ remoteCalls'[c] = remoteCalls[c] + 1
                    /\ store' = store
                 \/ /\ pc[c] = "fetching" /\ pc'[c] = "returned"
                    /\ result'[c] = sanitize(raw'[c], type[c])
                    /\ store' = CacheSet(store, KeyOf(c), result'[c], now)
                 \/ /\ pc[c] = "fetching" /\ pc'[c] = "failed"
                    /\ thrown'[c] # NotThrown
                    /\ store' = store]_vars
    /\ [][\A c \in Calls :
             pc[c] \in {"idle"} \cup Settled /\ pc'[c] = pc[c] =>
                 /\ remoteCalls'[c] = remoteCalls[c]
                 /\ result'[c] = result[c]
                 /\ thrown'[c] = thrown[c]]_vars
    /\ [][(\A c \in Calls : pc'[c] = pc[c]) => store' = store]_vars

\* one call was retried four times and then returned the text it stored,
\* and another call for the same key returned straight from its lookup
C21_Witness ==
    \E c \in Calls, d \in Calls :
        /\ pc[c] = "returned" /\ Len(delays[c]) = 4 /\ remoteCalls[c] = 5
        /\ store[KeyOf(c)].content = result[c]
        /\ pc[d] = "returned" /\ remoteCalls[d] = 0 /\ Hit(d)
        /\ KeyOf(d) = KeyOf(c)
        /\ result[d] = result[c]

\* C22: when every request in flight is answered and every timer that was set
\* fires, a call that has started ends, returned or failed, whatever the
\* other calls do, and stays as it ended.
C22_EveryCallEnds ==
    /\ \A c \in Calls : (pc[c] # "idle") ~> (pc[c] \in Settled)
    /\ [][\A c \in Calls : pc[c] \in Settled => pc'[c] = pc[c]]_vars

\* a call failed after five attempts while another call, started before the
\* first one ended, was waiting for a timer
C22_Witness ==
    \E c \in Calls, d \in Calls :
        /\ pc[c] = "failed" /\ Len(errs[c]) = numOfAttempts
        /\ pc[d] = "delaying" /\ Len(errs[d]) = 1

\* the requests whose result has been fetched and stored
FetchedPairs == {<<topic[c], type[c]>> : c \in {b \in Calls : Fetched(b)}}

\* C23: the key is the topic as given, '::' and the kind: every fetched
\* result is stored under that key, different requests have different
\* entries (also for topics that differ in case, white space or colons), and
\* a call served from the cache gets the result an earlier call for the
\* same topic and kind fetched.  getCacheKey joins topic and kind with one
\* colon, so the calls of generateContent store under another key.
C23_KeyIsTopicColonColonKind ==
    /\ \A c \in Calls :
           Fetched(c) =>
               (topic[c] \o <<":", ":">> \o type[c]) \in DOMAIN store
    /\ Cardinality(DOMAIN store) = Cardinality(FetchedPairs)
    /\ \A d \in Calls :
           (pc[d] = "returned" /\ remoteCalls[d] = 0) =>
               \E c \in Calls :
                   /\ c < d /\ Fetched(c)
                   /\ topic[c] = topic[d] /\ type[c] = type[d]
                   /\ result[c] = result[d]

\* the keys whose entry differs between the two states of a step
Touched == {k \in Keys : EntryOf(store, k) # EntryOf(store', k)}

\* C24: a step changes the entry of at most one key, and in one of two
\* ways: set, when a call for that key receives a text, leaves the store with
\* that key mapped to the text and the current time and all else as it was;
\* get, in the lookup of a call for that key, takes a stale entry out and
\* leaves all else as it was.  No step of the clock changes the store, so an
\* entry that is not looked up stays, however old, and the store holds an
\* entry for every key at once.
C24_StoreFrame ==
    [][/\ Cardinality(Touched) <= 1
       /\ \A k \in Touched :
              \/ /\ pc[Caller] = "fetching" /\ KeyOf(Caller) = k
                 /\ pc'[Caller] = "returned"
                 /\ store' = MapSet(store, k, [content |-> result'[Caller],
                                               timestamp |-> now])
              \/ /\ pc[Caller] # "fetching" /\ pc'[Caller] = "fetching"
                 /\ key(topic'[Caller], type'[Caller]) = k
                 /\ k \in DOMAIN store /\ Stale(store[k], now)
                 /\ store' = MapDelete(store, k)
       /\ (pc[Caller] = "fetching" /\ pc'[Caller] = "returned") =>
              /\ KeyOf(Caller) \in DOMAIN store'
              /\ store'[KeyOf(Caller)].timestamp = now
              /\ DOMAIN store' = DOMAIN store \cup {KeyOf(Caller)}
       /\ now' # now => store' = store]_vars

\* an entry older than the TTL is still stored, beside the entry of the other
\* key, which was overwritten after the first had gone stale
C24_Witness ==
    \E k \in Keys, j \in Keys :
        /\ k \in DOMAIN store /\ j \in DOMAIN store /\ k # j
        /\ Stale(store[k], now)
        /\ store[j].timestamp > store[k].timestamp + ttlMs
        /\ pc[Caller] = "returned" /\ KeyOf(Caller) = j
        /\ found[Caller] # NoEntry

\* C25: a failure is not cached: when the call that follows a failed call
\* asks for the same key, its lookup finds no entry and it starts a new
\* attempt sequence, with no attempt counted, no delay taken and its first
\* remote call sent at once.  The failed call may have looked up the stored
\* text '', which get returns and generate takes for a miss: that entry is
\* still there for the call that follows.
C25_FailuresAreNotCached ==
    [][(/\ pc[Caller] = "failed" /\ pc'[Caller] # "failed"
        /\ topic'[Caller] = topic[Caller] /\ type'[Caller] = type[Caller]) =>
           /\ found'[Caller] = NoEntry
           /\ KeyOf(Caller) \notin DOMAIN store'
           /\ pc'[Caller] = "fetching"
           /\ attemptNumber'[Caller] = 0 /\ remoteCalls'[Caller] = 1
           /\ delays'[Caller] = <<>> /\ errs'[Caller] = <<>>]_vars

\* the call c looked up an entry that was older than the TTL
FoundStale(c) == found[c] # NoEntry /\ Stale(found[c], lookedAt[c])

\* C26: a call that returned without a remote call returned an entry that
\* was at most one TTL old when it was looked up.  A call that looked up a
\* stale entry has no value and its key no entry until its own fetch
\* succeeds; when it fails it throws one of the four messages, and the call
\* that follows for the same key finds nothing and fetches.
C26_NoStaleServe ==
    /\ [](\A c \in Calls :
            /\ (pc[c] = "returned" /\ remoteCalls[c] = 0) =>
                   /\ found[c] # NoEntry
                   /\ lookedAt[c] - found[c].timestamp <= ttlMs
                   /\ result[c] = found[c].content
            /\ (FoundStale(c) /\ pc[c] \in {"fetching", "delaying", "failed"}) =>
                   /\ KeyOf(c) \notin DOMAIN store
                   /\ result[c] = Null
            /\ (FoundStale(c) /\ pc[c] = "failed") =>
                   thrown[c] \in {Errors.invalidKey, Errors.rateLimit,
                                  Errors.quotaExceeded, Errors.generic})
    /\ [][(/\ FoundStale(Caller) /\ pc[Caller] = "failed"
            /\ pc'[Caller] # "failed"
            /\ topic'[Caller] = topic[Caller]
            /\ type'[Caller] = type[Caller]) =>
               /\ found'[Caller] = NoEntry
               /\ pc'[Caller] = "fetching"]_vars

\* a call that found a stale entry and failed after five attempts, at a time
\* at which the key has no entry
C26_Witness ==
    /\ FoundStale(Caller) /\ pc[Caller] = "failed"
    /\ remoteCalls[Caller] = numOfAttempts
    /\ thrown[Caller] = Errors.rateLimit
    /\ found[Caller].content # <<>>
    /\ KeyOf(Caller) \notin DOMAIN store

\* C27: in the ContentResult variant a call whose lookup hits returns what
\* the call that filled the entry returned: full is the stored text and
\* quickReference is the list that call returned; quickReference never has
\* more than 5 items and has none when the text has no marker.  A call whose
\* lookup hits the stored text '' fetches again and returns the new text.
C27_HitReturnsWhatTheMissReturned ==
    /\ \A d \in Calls :
           (pc[d] = "returned" /\ Hit(d)) =>
               /\ result[d] = found[d].content
               /\ \E c \in Calls :
                      /\ c < d /\ pc[c] = "returned" /\ raw[c] # Null
                      /\ result[c] = result[d]
                      /\ quickReference[c] = quickReference[d]
    /\ \A c \in Calls :
           pc[c] = "returned" =>
               /\ Len(quickReference[c]) <= 5
               /\ ~Includes(result[c], QuickReferenceMarker) =>
                      quickReference[c] = <<>>

\* the calls of handleGenerateContent and handleSelectFollowUp in flight
HandlersInFlight == {h \in Calls : handler[h] \in HandlerAwaits}

\* C28: isGeneratingContent is true while a call of handleGenerateContent or
\* handleSelectFollowUp is in flight and false when none is.  The flag is
\* one boolean that every call sets to false in its finally block, so the
\* first of two overlapping calls to finish clears it while the other is
\* still in flight.
C28_GeneratingWhileInFlight ==
    isGeneratingContent <=> (HandlersInFlight # {})

\* C29: content that is shown belongs to the selected topic, and so do the
\* follow-up questions a generation installs.  A handler uses the
\* selectedTopic of the render it was called in, so a generation started
\* for one topic installs its content after another topic was selected.
C29_ContentIsOfSelectedTopic ==
    /\ [](content # NoContent => content.topicId = selectedTopic.id)
    /\ [][\A h \in Calls :
            (handler[h] = "generateFollowUpQuestions" /\ handler'[h] = "done"
             /\ followUpQuestions' # <<>>) =>
                closure[h] = selectedTopic]_vars

\* the follow-up generation of the call h failed, or what it returned is not
\* an array
FollowUpFailed(h) ==
    /\ type[h] = FollowUp
    /\ pc[h] = "failed" \/ (pc[h] = "returned" /\ ~ParsesAsArray(result[h]))

\* C30: when the main generation of handleGenerateContent fails, content
\* becomes null and error the message generateContent threw, one of its four
\* messages.  When the follow-up generation fails, or its result does not
\* parse as an array, the step leaves error and content as they are and
\* empties the follow-up list; if no other handler was called, the page then
\* shows no error.
C30_ErrorsOnThePage ==
    /\ [][\A h \in Calls :
            /\ (handler[h] = "handleGenerateContent" /\ handler'[h] = "done") =>
                   /\ pc[h] = "failed"
                   /\ content' = NoContent
                   /\ error' = thrown[h]
                   /\ error' \in {ErrorMessageTexts.invalidKey,
                                  ErrorMessageTexts.rateLimit,
                                  ErrorMessageTexts.quotaExceeded,
                                  ErrorMessageTexts.generic}
            /\ (handler[h] = "generateFollowUpQuestions" /\ handler'[h] = "done"
                 /\ FollowUpFailed(h)) =>
                   /\ error' = error
                   /\ content' = content
                   /\ followUpQuestions' = <<>>]_vars
    /\ [](\A h \in Calls :
            (/\ handler[h] = "done" /\ FollowUpFailed(h)
             /\ \A g \in Calls \ {h} : handler[g] = "idle") =>
                error = NoError /\ followUpQuestions = <<>>)

\* the one call of handleGenerateContent has shown its content, and the
\* text its follow-up generation returned did not parse
C30_Witness ==
    \E h \in Calls :
        /\ handler[h] = "done" /\ type[h] = FollowUp
        /\ pc[h] = "returned" /\ result[h] = TextPlain
        /\ \A g \in Calls \ {h} : handler[g] = "idle"
        /\ content # NoContent /\ content.topicId = selectedTopic.id
        /\ error = NoError /\ followUpQuestions = <<>>

====
